---- MODULE Spec2Model ----
(***************************************************************************)
(* Model of the render-flow planning layer of griphin-rs:                  *)
(*   src/src/flow/builder.rs      RenderFlowBuilder, RenderFlowBuilderID   *)
(*   src/src/flow/grid.rs         FlowGridSketch, FlowGridBuilder          *)
(*   src/src/flow/render_task.rs  RenderTaskSketch, RenderTaskBuilder      *)
(*   src/src/grid/id.rs           AbstractGridID                           *)
(* and of the checks and data structures around it:                        *)
(*   src/src/shader/pair.rs       ShaderPair::link_by_attribute_names      *)
(*   src/src/vertex/store.rs      VertexStore::new and its debug checks,   *)
(*                                VertexStoreBuilder and its put methods   *)
(*   src/src/vertex/description.rs  RawVertexDescription                   *)
(*   src/src/grid/dump.rs         ColorGridDump                            *)
(*                                                                         *)
(* A FlowGridBuilder (a "grid handle") is owned by the caller, not by the  *)
(* builder that created it: add_grid_node returns it by value and          *)
(* add_render_task receives references to handles inside the task.  The    *)
(* hazard state (last_read_moment, last_write_moment) lives in the handle. *)
(* The u32 moments cannot wrap within the bounds below (a wrap needs 2^32  *)
(* tasks), so they are modelled as naturals.                               *)
(***************************************************************************)
EXTENDS Integers, Sequences, FiniteSets, TLC

\* ---------------------------------------------------------------- bounds

\* Two bounded worlds are explored.  The first has two builders of one grid
\* group, few grids and every call a caller can make: the panicking ones
\* included, and any grid in any role of a task.  The second has one builder,
\* more grids and more tasks, and a caller that registers each grid of the
\* group at most once (so no call of it panics), binds colour grids as inputs
\* and outputs and depth/stencil grids as depth/stencil grid.

\* First world: number of calls (of any operation) in one run.
MaxCalls == 5
\* First world: number of add_render_task calls in one run.
MaxTasks == 2
\* First world: longest list of input bindings of one task.
MaxInputs == 2
\* First world: longest list of output bindings of one task.
MaxOutputs == 1
\* First world: number of grids (local ids 0 .. NumGrids-1) of the own group.
NumGrids == 3

\* Second world: number of calls (of any operation) in one run.
MaxFlowCalls == 8
\* Second world: number of add_render_task calls in one run.
MaxFlowTasks == 4
\* Second world: longest list of input bindings, and of output bindings.
MaxFlowBindings == 1
\* Second world: number of colour grids (GridGroupIDs.colors) and of
\* depth/stencil grids (GridGroupIDs.depth_stencils) of the own group.
NumFlowColors == 2
NumFlowDepthStencils == 2

\* Third world: two builders of one group as in the first, typed roles and
\* no repeated registration as in the second, few grids and three tasks.
MaxCrossCalls == 6
MaxCrossTasks == 3
MaxCrossBindings == 1
NumCrossColors == 1
NumCrossDepthStencils == 1

\* Fourth world: one builder as in the second, typed roles and no repeated
\* registration, tasks with up to two inputs and two outputs.
MaxOrderCalls == 7
MaxOrderTasks == 3
MaxOrderBindings == 2
NumOrderColors == 3
NumOrderDepthStencils == 1

\* Shader linking: longest list of variables one shader declares.
MaxShaderVariables == 2

\* Vertex store: number of attributes of a description, of put calls in a
\* store method, and of vertices; the bound of an Index attribute.
MaxAttributes == 2
MaxPuts == 2
MaxVertices == 2
IndexBound == 10

\* Vertex layout: number of add_attribute calls on one description.
MaxLayoutAttributes == 3

\* Colour grid dump: longest data vector.
MaxDumpLen == 6

\* Put operations: length of the raw buffer, and the largest current_offset
\* of the builder and offset of an attribute handle.
MaxPutBuffer == 18
MaxPutOffset == 8

\* The abstract grid group the builders were created by, and another one.
OwnGroup == 1
OtherGroup == 2

\* RenderFlowBuilderID { group_id, local_id }: the builders of the first world
\* are made by the same AbstractGridGroup (create_render_flow_builder may be
\* called repeatedly); the second world has the first of them only.
RenderFlowBuilderID == [group_id : {OwnGroup}, local_id : {1, 2}]
FlowBuilderID == [group_id : {OwnGroup}, local_id : {1}]

\* AbstractGridID { group_id, local_id }: the grids of the own group, and in
\* the first world one grid of another group.
AbstractGridID ==
    [group_id : {OwnGroup}, local_id : 0 .. (NumGrids - 1)]
        \cup [group_id : {OtherGroup}, local_id : {0}]
\* GridGroupIDs { colors, depth_stencils } of the second world.
FlowColors == [group_id : {OwnGroup}, local_id : 0 .. (NumFlowColors - 1)]
FlowDepthStencils ==
    [group_id : {OwnGroup},
     local_id : NumFlowColors .. (NumFlowColors + NumFlowDepthStencils - 1)]
FlowGridID == FlowColors \cup FlowDepthStencils
\* GridGroupIDs { colors, depth_stencils } of the third world.
CrossColors == [group_id : {OwnGroup}, local_id : 0 .. (NumCrossColors - 1)]
CrossDepthStencils ==
    [group_id : {OwnGroup},
     local_id : NumCrossColors .. (NumCrossColors + NumCrossDepthStencils - 1)]
CrossGridID == CrossColors \cup CrossDepthStencils
\* GridGroupIDs { colors, depth_stencils } of the fourth world.
OrderColors == [group_id : {OwnGroup}, local_id : 0 .. (NumOrderColors - 1)]
OrderDepthStencils ==
    [group_id : {OwnGroup},
     local_id : NumOrderColors .. (NumOrderColors + NumOrderDepthStencils - 1)]
OrderGridID == OrderColors \cup OrderDepthStencils

\* Shader variable names (StringRef) a binding may carry.
ShaderVariableNames == {"color"}

VARIABLES
    drawing_nodes,   \* builder id -> Seq(RenderTaskSketch)
    used_grids,      \* builder id -> (partial) AbstractGridID -> FlowGridSketch
    handles,         \* (partial) handle -> FlowGridBuilder; the handles the caller holds
    call,            \* the last call made and how it ended
    vertex_shader,   \* VertexShader::get_variables(): Seq(VertexShaderVariable)
    fragment_shader, \* FragmentShader::get_variables(): Seq(FragmentShaderVariable)
    shader_pair,     \* what link_by_attribute_names returned for the two shaders
    description,     \* RawVertexDescription { attributes, current_offset }
    store,           \* the put calls of Vertex::store of the vertices' type
    vertices,        \* the slice of vertices
    debug_level,     \* DebugLevel
    writer,          \* the lines logged to the writer
    written,         \* history: the buffer positions the store methods wrote
    vertex_store,    \* what VertexStore::new returned
    added,           \* history: the add_attribute calls made one by one, each
                     \* with its arguments and the handle it returned
    dump_input,      \* the arguments of ColorGridDump::new: data (its length),
                     \* width, height
    overflow_checks, \* whether the build checks integer overflow
    color_grid_dump, \* what ColorGridDump::new returned
    got,             \* what get_width and get_height returned
    vertex_store_builder, \* a VertexStoreBuilder the put methods are called on
    put              \* history: the put call made, and the builder before it

\* A handle (a FlowGridBuilder value) is identified by <<builder, grid>>: the
\* builder whose add_grid_node returned it and the grid it is for.  A builder
\* returns at most one handle per grid.
Builders == DOMAIN drawing_nodes

\* The variables of the render flow, and those of the shader linking.
flowVars == <<drawing_nodes, used_grids, handles, call>>
shaderVars == <<vertex_shader, fragment_shader, shader_pair>>

vertexVars ==
    <<description, store, vertices, debug_level, writer, written, vertex_store,
      added>>

dumpVars == <<dump_input, overflow_checks, color_grid_dump, got>>

putVars == <<vertex_store_builder, put>>

vars == <<flowVars, shaderVars, vertexVars, dumpVars, putVars>>

\* ------------------------------------------------------------ data types

\* A faulty variant of FlowGridSketch_new: the grid's final content is
\* preserved from the start.
FlowGridSketch_new_Preserved(preserve_initial_content) ==
    [preserve_initial_content |-> preserve_initial_content,
     preserve_final_content |-> TRUE]

\* FlowGridSketch::new(preserve_initial_content)
FlowGridSketch_new(preserve_initial_content) ==
    [preserve_initial_content |-> preserve_initial_content,
     preserve_final_content |-> FALSE]

\* FlowGridBuilder::new(grid_id)
FlowGridBuilder_new(grid_id) ==
    [grid_id |-> grid_id, last_read_moment |-> 0, last_write_moment |-> 0]

\* RenderTaskInputSketch::new / RenderTaskOutputSketch::new
BindingSketch_new(grid_id, shader_variable_name) ==
    [grid_id |-> grid_id, shader_variable_name |-> shader_variable_name]

\* RenderTaskSketch::new
RenderTaskSketch_new(moment, inputs, outputs, depth_stencil_grid) ==
    [moment |-> moment, inputs |-> inputs, outputs |-> outputs,
     depth_stencil_grid |-> depth_stencil_grid]

\* FlowGridBuilder::get_grid_id of the handle h
get_grid_id(h) == handles[h].grid_id

\* ------------------------------------------------------------------ Init

\* RenderFlowBuilder::new for each builder of ids; no handle exists yet.
RenderFlowBuilder_new(ids) ==
    /\ drawing_nodes = [b \in ids |-> <<>>]
    /\ used_grids = [b \in ids |-> <<>>]
    /\ handles = <<>>
    /\ call = [op |-> "new", result |-> "ok"]

\* No shaders are being linked.
NoShaders ==
    /\ vertex_shader = <<>>
    /\ fragment_shader = <<>>
    /\ shader_pair = [type |-> "Unlinked"]

\* RawVertexDescription::new, description.rs 24-26.
RawVertexDescription_new == [attributes |-> <<>>, current_offset |-> 0]

\* No vertices are being stored.
NoVertices ==
    /\ description = RawVertexDescription_new
    /\ store = <<>>
    /\ vertices = <<>>
    /\ debug_level = "Minimal"
    /\ writer = <<>>
    /\ written = {}
    /\ vertex_store = [result |-> "none"]
    /\ added = <<>>

\* u32: the value hi * 2^16 + lo, kept as its two 16-bit halves.
U32(hi, lo) == [hi |-> hi, lo |-> lo]

\* No colour grid is being dumped.
NoDump ==
    /\ dump_input = [data_len |-> 0, width |-> U32(0, 0), height |-> U32(0, 0)]
    /\ overflow_checks = TRUE
    /\ color_grid_dump = [result |-> "unused"]
    /\ got = [get_width |-> [result |-> "none"], get_height |-> [result |-> "none"]]

\* No put method is being called.
NoPuts ==
    /\ vertex_store_builder = [raw_buffer |-> <<>>, current_offset |-> 0,
                        written |-> {}, panicked |-> FALSE]
    /\ put = [op |-> "unused"]

Init ==
    /\ RenderFlowBuilder_new(RenderFlowBuilderID)
    /\ NoShaders /\ NoVertices /\ NoDump /\ NoPuts

InitFlow ==
    /\ RenderFlowBuilder_new(FlowBuilderID)
    /\ NoShaders /\ NoVertices /\ NoDump /\ NoPuts

\* A panic ends the run: nothing is called after it.
Running == call.result = "ok"

\* ------------------------------------------------- moment assignment

\* builder.rs 72-74: one input pushes the moment past its grid's last write.
InputMoment(grid, moment) ==
    IF grid.last_write_moment >= moment
        THEN grid.last_write_moment + 1
        ELSE moment

\* A faulty variant of InputsMoment: only the last input is looked at.
InputsMoment_LastOnly(inputs, i, moment) ==
    IF inputs = <<>>
        THEN moment
        ELSE InputMoment(handles[inputs[Len(inputs)].grid], moment)

\* builder.rs 71-75: the loop over task.inputs.
RECURSIVE InputsMoment(_, _, _)
InputsMoment(inputs, i, moment) ==
    IF i > Len(inputs)
        THEN moment
        ELSE InputsMoment(inputs, i + 1, InputMoment(handles[inputs[i].grid], moment))

\* builder.rs 79-81: one output pushes the moment past its grid's last write.
OutputWriteMoment(grid, moment) ==
    IF grid.last_write_moment >= moment
        THEN grid.last_write_moment + 1
        ELSE moment

\* A faulty variant of OutputReadMoment: the bound is inclusive, as it is for
\* the depth/stencil grid.
OutputReadMoment_Inclusive(grid, moment) ==
    IF grid.last_read_moment >= moment
        THEN grid.last_read_moment
        ELSE moment

\* builder.rs 82-84: and past its grid's last read.
OutputReadMoment(grid, moment) ==
    IF grid.last_read_moment >= moment
        THEN grid.last_read_moment + 1
        ELSE moment

\* builder.rs 78-85: the loop over task.outputs.
RECURSIVE OutputsMoment(_, _, _)
OutputsMoment(outputs, i, moment) ==
    IF i > Len(outputs)
        THEN moment
        ELSE OutputsMoment(outputs, i + 1,
                OutputReadMoment(handles[outputs[i].grid],
                    OutputWriteMoment(handles[outputs[i].grid], moment)))

\* A faulty variant of DepthStencilMoment: the bounds are exclusive, as they
\* are for an output.
DepthStencilMoment_Exclusive(grid, moment) ==
    LET m1 == IF grid.last_read_moment >= moment
                  THEN grid.last_read_moment + 1
                  ELSE moment
    IN IF grid.last_write_moment >= m1
           THEN grid.last_write_moment + 1
           ELSE m1

\* builder.rs 88-93: the depth/stencil grid; both bounds are inclusive.
DepthStencilMoment(grid, moment) ==
    LET m1 == IF grid.last_read_moment >= moment
                  THEN grid.last_read_moment
                  ELSE moment
    IN IF grid.last_write_moment >= m1
           THEN grid.last_write_moment
           ELSE m1

\* A faulty variant of TaskMoment: the loop over the outputs is left out.
TaskMoment_SkipOutputs(task) ==
    DepthStencilMoment(handles[task.depth_stencil_grid],
        InputsMoment(task.inputs, 1, 1))

\* builder.rs 68-93: the moment of the task, from the handles as they are.
TaskMoment(task) ==
    DepthStencilMoment(handles[task.depth_stencil_grid],
        OutputsMoment(task.outputs, 1,
            InputsMoment(task.inputs, 1, 1)))

\* A faulty variant of CommitInput: the input's last write is set as well.
CommitInput_AlsoWrite(grid, moment) ==
    [grid EXCEPT !.last_read_moment = moment, !.last_write_moment = moment]

\* builder.rs 97: an input grid's last read becomes the moment.
CommitInput(grid, moment) ==
    [grid EXCEPT !.last_read_moment = moment]

\* A faulty variant of CommitOutput: the write is not counted as a read.
CommitOutput_WriteOnly(grid, moment) ==
    [grid EXCEPT !.last_write_moment = moment]

\* builder.rs 100-102: an output grid's last write and last read.
CommitOutput(grid, moment) ==
    [grid EXCEPT !.last_write_moment = moment, !.last_read_moment = moment]

\* builder.rs 106-107: the depth/stencil grid's last write and last read.
CommitDepthStencil(grid, moment) ==
    [grid EXCEPT !.last_write_moment = moment, !.last_read_moment = moment]

\* The handles a list of bindings refers to.
BoundHandles(bindings) == {bindings[i].grid : i \in 1 .. Len(bindings)}

\* A faulty variant of CommitTask: the commit touches every handle.
CommitTask_EveryHandle(hs, task, moment) ==
    [h \in DOMAIN hs |-> CommitOutput(hs[h], moment)]

\* builder.rs 95-107: the three commit loops in their order (inputs, outputs,
\* depth/stencil); a later write to the same handle would win.
CommitTask(hs, task, moment) ==
    LET afterInputs ==
            [h \in DOMAIN hs |->
                IF h \in BoundHandles(task.inputs)
                    THEN CommitInput(hs[h], moment) ELSE hs[h]]
        afterOutputs ==
            [h \in DOMAIN hs |->
                IF h \in BoundHandles(task.outputs)
                    THEN CommitOutput(afterInputs[h], moment) ELSE afterInputs[h]]
    IN [h \in DOMAIN hs |->
            IF h = task.depth_stencil_grid
                THEN CommitDepthStencil(afterOutputs[h], moment) ELSE afterOutputs[h]]

\* A faulty variant of BindingSketches: the bindings in reverse order.
BindingSketches_Reversed(bindings) ==
    [i \in 1 .. Len(bindings) |->
        BindingSketch_new(get_grid_id(bindings[Len(bindings) + 1 - i].grid),
                          bindings[Len(bindings) + 1 - i].shader_variable_name)]

\* builder.rs 109-114: the bindings of the sketch, in declaration order.
BindingSketches(bindings) ==
    [i \in 1 .. Len(bindings) |->
        BindingSketch_new(get_grid_id(bindings[i].grid), bindings[i].shader_variable_name)]

\* builder.rs 116-119: the sketch pushed for the task.
TaskSketch(task, moment) ==
    RenderTaskSketch_new(moment, BindingSketches(task.inputs),
        BindingSketches(task.outputs), get_grid_id(task.depth_stencil_grid))

\* ------------------------------------------------------ task declarations

\* Sequences over S of length at most n.
SeqUpTo(S, n) == UNION {[1 .. k -> S] : k \in 0 .. n}

\* RenderTaskBuilder: inputs hold shared references (&FlowGridBuilder), outputs
\* and depth_stencil_grid exclusive ones (&mut FlowGridBuilder).  The borrow
\* checker admits a handle several times among the inputs, and otherwise at
\* most once in the whole task.  Any handle the caller holds can be bound,
\* whichever builder returned it.  colors and depth_stencils are the grids the
\* caller binds as inputs and outputs, and as depth/stencil grid.
HandlesOf(grids) == {h \in DOMAIN handles : handles[h].grid_id \in grids}

RenderTaskBuilder(maxInputs, maxOutputs, colors, depth_stencils) ==
    {task \in [inputs : SeqUpTo([grid : HandlesOf(colors),
                                 shader_variable_name : ShaderVariableNames], maxInputs),
               outputs : SeqUpTo([grid : HandlesOf(colors),
                                  shader_variable_name : ShaderVariableNames], maxOutputs),
               depth_stencil_grid : HandlesOf(depth_stencils)] :
        /\ \A i, j \in 1 .. Len(task.outputs) :
                i # j => task.outputs[i].grid # task.outputs[j].grid
        /\ BoundHandles(task.inputs) \cap BoundHandles(task.outputs) = {}
        /\ task.depth_stencil_grid \notin
                BoundHandles(task.inputs) \cup BoundHandles(task.outputs)}

\* Number of tasks added so far, over all builders.
RECURSIVE TotalTasks(_)
TotalTasks(bs) ==
    IF bs = {} THEN 0
    ELSE LET b == CHOOSE x \in bs : TRUE
         IN Len(drawing_nodes[b]) + TotalTasks(bs \ {b})

\* Number of grid nodes added so far, over all builders.
RECURSIVE TotalGridNodes(_)
TotalGridNodes(bs) ==
    IF bs = {} THEN 0
    ELSE LET b == CHOOSE x \in bs : TRUE
         IN Cardinality(DOMAIN used_grids[b]) + TotalGridNodes(bs \ {b})

\* Number of calls that returned so far: every add_grid_node that returned
\* left one entry and one handle, every preserve_grid_node that returned took
\* one handle away, every add_render_task left one sketch.
TotalCalls ==
    TotalGridNodes(Builders) + (TotalGridNodes(Builders) - Cardinality(DOMAIN handles))
        + TotalTasks(Builders)

\* --------------------------------------------------------------- actions

\* RenderFlowBuilder::add_render_task(&mut self, task), builder.rs 66-120.
add_render_task(self, task) ==
    LET moment == TaskMoment(task)
    IN /\ handles' = CommitTask(handles, task, moment)
       /\ drawing_nodes' =
            [drawing_nodes EXCEPT ![self] = Append(@, TaskSketch(task, moment))]
       /\ call' = [op |-> "add_render_task", self |-> self, task |-> task,
                   result |-> "ok"]
       /\ UNCHANGED used_grids

\* HashMap::insert: the entry is written whether or not the key was present.
HashMap_insert(map, key, value) ==
    [k \in DOMAIN map \cup {key} |-> IF k = key THEN value ELSE map[k]]

\* A faulty variant of SameGroup: the scope check is left out.
SameGroup_Unchecked(grid, id) == TRUE

\* builder.rs 123: the scope check of add_grid_node.
SameGroup(grid, id) == grid.group_id = id.group_id

\* A faulty variant of AlreadyUsed: is_none() in place of is_some().
AlreadyUsed_IsNone(map, grid) == grid \notin DOMAIN map

\* builder.rs 126: insert(..).is_some(), the key was present before the insert.
AlreadyUsed(map, grid) == grid \in DOMAIN map

\* RenderFlowBuilder::add_grid_node(&mut self, grid, preserve_content),
\* builder.rs 122-130.  The insert of line 126 happens before the duplicate
\* panic of line 127.
add_grid_node(self, grid, preserve_content) ==
    IF ~SameGroup(grid, self)
    THEN /\ call' = [op |-> "add_grid_node", self |-> self, grid |-> grid,
                     preserve_content |-> preserve_content,
                     result |-> "panic: grid of another group"]
         /\ UNCHANGED <<drawing_nodes, used_grids, handles>>
    ELSE /\ used_grids' =
                [used_grids EXCEPT ![self] =
                    HashMap_insert(@, grid, FlowGridSketch_new(preserve_content))]
         /\ IF AlreadyUsed(used_grids[self], grid)
            THEN /\ call' = [op |-> "add_grid_node", self |-> self, grid |-> grid,
                             preserve_content |-> preserve_content,
                             result |-> "panic: duplicate grid node"]
                 /\ UNCHANGED handles
            ELSE /\ call' = [op |-> "add_grid_node", self |-> self, grid |-> grid,
                             preserve_content |-> preserve_content,
                             result |-> "ok"]
                 /\ handles' = HashMap_insert(handles, <<self, grid>>,
                                              FlowGridBuilder_new(grid))
         /\ UNCHANGED drawing_nodes

\* The handles without h (h was moved into a call and dropped there).
Moved(hs, h) == [k \in DOMAIN hs \ {h} |-> hs[k]]

\* A faulty variant of preserve_grid_node: the flag is flipped, not set.
preserve_grid_node_Flip(self, grid_node) ==
    /\ handles' = Moved(handles, grid_node)
    /\ get_grid_id(grid_node) \in DOMAIN used_grids[self]
    /\ used_grids' =
            [used_grids EXCEPT
                ![self][get_grid_id(grid_node)].preserve_final_content = ~@]
    /\ call' = [op |-> "preserve_grid_node", self |-> self,
                grid_node |-> grid_node, result |-> "ok"]
    /\ UNCHANGED drawing_nodes

\* RenderFlowBuilder::preserve_grid_node(&mut self, grid_node), builder.rs
\* 132-136.  grid_node is taken by value: the caller's handle is gone.
preserve_grid_node(self, grid_node) ==
    /\ handles' = Moved(handles, grid_node)
    /\ IF get_grid_id(grid_node) \in DOMAIN used_grids[self]
       THEN /\ used_grids' =
                [used_grids EXCEPT
                    ![self][get_grid_id(grid_node)].preserve_final_content = TRUE]
            /\ call' = [op |-> "preserve_grid_node", self |-> self,
                        grid_node |-> grid_node, result |-> "ok"]
       ELSE /\ call' = [op |-> "preserve_grid_node", self |-> self,
                        grid_node |-> grid_node,
                        result |-> "panic: expect on None"]
            /\ UNCHANGED used_grids
    /\ UNCHANGED drawing_nodes

AddRenderTask(maxCalls, maxTasks, maxInputs, maxOutputs, colors, depth_stencils) ==
    /\ Running
    /\ TotalCalls < maxCalls
    /\ TotalTasks(Builders) < maxTasks
    /\ \E self \in Builders :
       \E task \in RenderTaskBuilder(maxInputs, maxOutputs, colors, depth_stencils) :
            add_render_task(self, task)
    /\ UNCHANGED <<shaderVars, vertexVars, dumpVars, putVars>>

AddGridNode(maxCalls, grids, preserves, again) ==
    /\ Running
    /\ TotalCalls < maxCalls
    /\ \E self \in Builders : \E grid \in grids : \E preserve_content \in preserves :
            /\ again \/ grid \notin DOMAIN used_grids[self]
            /\ add_grid_node(self, grid, preserve_content)
    /\ UNCHANGED <<shaderVars, vertexVars, dumpVars, putVars>>

PreserveGridNode(maxCalls) ==
    /\ Running
    /\ TotalCalls < maxCalls
    /\ \E self \in Builders : \E grid_node \in DOMAIN handles :
            preserve_grid_node(self, grid_node)
    /\ UNCHANGED <<shaderVars, vertexVars, dumpVars, putVars>>

Next ==
    \/ AddRenderTask(MaxCalls, MaxTasks, MaxInputs, MaxOutputs, AbstractGridID, AbstractGridID)
    \/ AddGridNode(MaxCalls, AbstractGridID, BOOLEAN, TRUE)
    \/ PreserveGridNode(MaxCalls)

Spec == Init /\ [][Next]_vars

NextFlow ==
    \/ AddRenderTask(MaxFlowCalls, MaxFlowTasks, MaxFlowBindings, MaxFlowBindings,
                     FlowColors, FlowDepthStencils)
    \/ AddGridNode(MaxFlowCalls, FlowGridID, {FALSE}, FALSE)
    \/ PreserveGridNode(MaxFlowCalls)

SpecFlow == InitFlow /\ [][NextFlow]_vars

NextCross ==
    \/ AddRenderTask(MaxCrossCalls, MaxCrossTasks, MaxCrossBindings, MaxCrossBindings,
                     CrossColors, CrossDepthStencils)
    \/ AddGridNode(MaxCrossCalls, CrossGridID, {FALSE}, FALSE)
    \/ PreserveGridNode(MaxCrossCalls)

SpecCross == Init /\ [][NextCross]_vars

NextOrder ==
    \/ AddRenderTask(MaxOrderCalls, MaxOrderTasks, MaxOrderBindings, MaxOrderBindings,
                     OrderColors, OrderDepthStencils)
    \/ AddGridNode(MaxOrderCalls, OrderGridID, {FALSE}, FALSE)
    \/ PreserveGridNode(MaxOrderCalls)

SpecOrder == InitFlow /\ [][NextOrder]_vars

\* ======================================================== shader linking

\* data.rs 33-35, 67, 84-88: DataType { kind, shape }; two of the data types.
FLOAT == [kind |-> "float", shape |-> "SINGLE"]
INT == [kind |-> "int", shape |-> "SINGLE"]
DataType == {FLOAT, INT}

\* Names a shader variable may have.
ShaderNames == {"a", "b"}

\* variable.rs 7-35: VertexShaderVariableType (InstancedInput behaves as
\* VertexInput in the linking; External with the UniformInput kind).
VertexShaderVariableType ==
    {"VertexInput", "External", "SmoothFragmentOutput", "FlatFragmentOutput"}

\* variable.rs 41-65: FragmentShaderVariableType (DepthStencilOutput behaves
\* as ColorOutput in the linking).
FragmentShaderVariableType ==
    {"SmoothVertexInput", "FlatVertexInput", "External", "ColorOutput"}

\* variable.rs 102-106: VertexShaderVariable { name, data_type, variable_type }
VertexShaderVariable ==
    [name : ShaderNames, data_type : DataType, variable_type : VertexShaderVariableType]

\* variable.rs 138-142: FragmentShaderVariable
FragmentShaderVariable ==
    [name : ShaderNames, data_type : DataType, variable_type : FragmentShaderVariableType]

\* variable.rs 190-202: ExternalShaderVariable::new
ExternalShaderVariable_new(name, data_type, variable_type) ==
    [name |-> name, data_type |-> data_type, variable_type |-> variable_type]

\* The pairs <<i, j>> in the order the nested loops visit them.
Before(p, q) == p[1] < q[1] \/ (p[1] = q[1] /\ p[2] < q[2])

\* A faulty variant of match_shader_variables_types: nothing is compared.
match_shader_variables_types_Skip(variables1, variables2, filter1, filter2) ==
    [ok |-> TRUE]

\* pair.rs 293-314: the first pair (var1, var2), in loop order, that passes
\* the filters and has the same name and different data types.
match_shader_variables_types(variables1, variables2, filter1, filter2) ==
    LET bad == {p \in (1 .. Len(variables1)) \X (1 .. Len(variables2)) :
                    /\ variables1[p[1]].variable_type = filter1
                    /\ variables2[p[2]].variable_type = filter2
                    /\ variables1[p[1]].name = variables2[p[2]].name
                    /\ variables1[p[1]].data_type # variables2[p[2]].data_type}
    IN IF bad = {}
       THEN [ok |-> TRUE]
       ELSE LET first == CHOOSE p \in bad : \A q \in bad \ {p} : Before(p, q)
            IN [ok |-> FALSE, err |-> <<variables1[first[1]], variables2[first[2]]>>]

\* pair.rs 316-335: the first required name that is not available.
match_shader_variable_names(required_names, available_names) ==
    LET missing == {i \in 1 .. Len(required_names) :
                        \A j \in 1 .. Len(available_names) :
                            available_names[j] # required_names[i]}
    IN IF missing = {}
       THEN [ok |-> TRUE]
       ELSE [ok |-> FALSE,
             err |-> required_names[CHOOSE i \in missing : \A k \in missing : i <= k]]

\* pair.rs 384-407: into_iter().filter(variable_type).map(get_name).collect()
RECURSIVE NamesOf(_, _)
NamesOf(variables, variable_type) ==
    IF variables = <<>> THEN <<>>
    ELSE (IF Head(variables).variable_type = variable_type
            THEN <<Head(variables).name>> ELSE <<>>)
         \o NamesOf(Tail(variables), variable_type)

\* pair.rs 34-46: the External variables of the vertex shader, in order.
RECURSIVE VertexExternals(_)
VertexExternals(variables) ==
    IF variables = <<>> THEN <<>>
    ELSE (IF Head(variables).variable_type = "External"
            THEN <<ExternalShaderVariable_new(Head(variables).name,
                        Head(variables).data_type, "UniformInput")>>
            ELSE <<>>)
         \o VertexExternals(Tail(variables))

\* pair.rs 51-53: iter().find(): the first candidate with the name, or none.
Find(external_variables, name) ==
    LET found == {i \in 1 .. Len(external_variables) : external_variables[i].name = name}
    IN IF found = {} THEN 0 ELSE CHOOSE i \in found : \A k \in found : i <= k

\* pair.rs 47-79: the loop over the fragment shader's variables from index i
\* on, with the external variables collected so far.
RECURSIVE FragmentExternals(_, _, _)
FragmentExternals(variables, i, external_variables) ==
    IF i > Len(variables)
    THEN [type |-> "Ok", external_variables |-> external_variables]
    ELSE IF variables[i].variable_type # "External"
    THEN FragmentExternals(variables, i + 1, external_variables)
    ELSE LET found_it == Find(external_variables, variables[i].name)
         IN IF found_it = 0
            THEN FragmentExternals(variables, i + 1,
                    Append(external_variables,
                        ExternalShaderVariable_new(variables[i].name,
                            variables[i].data_type, "UniformInput")))
            ELSE IF external_variables[found_it].data_type # variables[i].data_type
            THEN [type |-> "General",
                  error |-> [name |-> variables[i].name,
                             vertex_type |-> external_variables[found_it].data_type,
                             fragment_type |-> variables[i].data_type]]
            ELSE FragmentExternals(variables, i + 1, external_variables)

\* ShaderPair::new, pair.rs 29-86.
ShaderPair_new(vertex_variables, fragment_variables) ==
    FragmentExternals(fragment_variables, 1, VertexExternals(vertex_variables))

\* ShaderLinkError::specific with a ShaderNameLinkError, pair.rs 157-168.
Specific(error) == [type |-> "Specific", error |-> error]

\* ShaderPair::link_by_attribute_names, pair.rs 353-468.
link_by_attribute_names(vertex_variables, fragment_variables) ==
    LET maybe_flat_type_mismatch ==
            match_shader_variables_types(vertex_variables, fragment_variables,
                "FlatFragmentOutput", "FlatVertexInput")
        maybe_smooth_type_mismatch ==
            match_shader_variables_types(vertex_variables, fragment_variables,
                "SmoothFragmentOutput", "SmoothVertexInput")
        flat_vertex_output_names == NamesOf(vertex_variables, "FlatFragmentOutput")
        smooth_vertex_output_names == NamesOf(vertex_variables, "SmoothFragmentOutput")
        flat_fragment_input_names == NamesOf(fragment_variables, "FlatVertexInput")
        smooth_fragment_input_names == NamesOf(fragment_variables, "SmoothVertexInput")
        maybe_miss_fragment_flat ==
            match_shader_variable_names(flat_vertex_output_names, flat_fragment_input_names)
        maybe_miss_fragment_smooth ==
            match_shader_variable_names(smooth_vertex_output_names, smooth_fragment_input_names)
        maybe_miss_vertex_flat ==
            match_shader_variable_names(flat_fragment_input_names, flat_vertex_output_names)
        maybe_miss_vertex_smooth ==
            match_shader_variable_names(smooth_fragment_input_names, smooth_vertex_output_names)
    IN IF ~maybe_flat_type_mismatch.ok
       THEN Specific([kind |-> "TypeMismatch",
                      vertex_output |-> maybe_flat_type_mismatch.err[1],
                      fragment_input |-> maybe_flat_type_mismatch.err[2]])
       ELSE IF ~maybe_smooth_type_mismatch.ok
       THEN Specific([kind |-> "TypeMismatch",
                      vertex_output |-> maybe_smooth_type_mismatch.err[1],
                      fragment_input |-> maybe_smooth_type_mismatch.err[2]])
       ELSE IF ~maybe_miss_fragment_flat.ok
       THEN Specific([kind |-> "MissingFragmentInput",
                      vertex_output_name |-> maybe_miss_fragment_flat.err])
       ELSE IF ~maybe_miss_fragment_smooth.ok
       THEN Specific([kind |-> "MissingFragmentInput",
                      vertex_output_name |-> maybe_miss_fragment_smooth.err])
       ELSE IF ~maybe_miss_vertex_flat.ok
       THEN Specific([kind |-> "MissingVertexOutput",
                      fragment_input_name |-> maybe_miss_vertex_flat.err])
       ELSE IF ~maybe_miss_vertex_smooth.ok
       THEN Specific([kind |-> "MissingVertexOutput",
                      fragment_input_name |-> maybe_miss_vertex_smooth.err])
       ELSE ShaderPair_new(vertex_variables, fragment_variables)

\* Any two shaders with at most MaxShaderVariables variables each; there is
\* no render flow.
InitShader ==
    /\ RenderFlowBuilder_new({})
    /\ vertex_shader \in SeqUpTo(VertexShaderVariable, MaxShaderVariables)
    /\ fragment_shader \in SeqUpTo(FragmentShaderVariable, MaxShaderVariables)
    /\ shader_pair = [type |-> "Unlinked"]
    /\ NoVertices
    /\ NoDump
    /\ NoPuts

\* The two shaders are linked.
LinkByAttributeNames ==
    /\ shader_pair.type = "Unlinked"
    /\ shader_pair' = link_by_attribute_names(vertex_shader, fragment_shader)
    /\ UNCHANGED <<flowVars, vertex_shader, fragment_shader, vertexVars, dumpVars, putVars>>

NextShader == LinkByAttributeNames

SpecShader == InitShader /\ [][NextShader]_vars

\* ========================================================== vertex store

\* data.rs 69: a data type of two components.
INT_VEC2 == [kind |-> "int", shape |-> "VEC2"]

\* data.rs 33-37 and 67-79: the data kinds, and the data shapes with their
\* size in units of 4 bytes.
DataKind == {"int", "float", "bool"}
DataShape ==
    [SINGLE |-> 1, VEC2 |-> 2, VEC3 |-> 3, VEC4 |-> 4, MAT2 |-> 4, MAT3 |-> 9,
     MAT4 |-> 16]

\* DataShape::get_size, data.rs 57-59.
get_size(shape) == DataShape[shape]

\* attribute.rs: the attribute kinds Index { bound } and Other.  (The kinds
\* Position, Normal, FloatTexCoords and IntTexCoords have checks of their own
\* at debug level High, store.rs 121-205 and 223-270; they are not modelled.)
AttributeKind == {[tag |-> "Index", bound |-> IndexBound], [tag |-> "Other"]}

\* debug.rs 14-31: DebugLevel, in its derived order.
DebugLevel == <<"Minimal", "Low", "Basic", "High", "All">>
DebugLevelOrd(level) == CHOOSE i \in 1 .. Len(DebugLevel) : DebugLevel[i] = level
\* debug_level >= DebugLevel::X
AtLeast(level, x) == DebugLevelOrd(level) >= DebugLevelOrd(x)

\* A faulty variant of add_attribute: the offset moves on by one byte per
\* component.
add_attribute_Bytes(raw, data_type, kind) ==
    [attributes |-> Append(raw.attributes,
                        [data_type |-> data_type, kind |-> kind,
                         offset |-> raw.current_offset]),
     current_offset |-> raw.current_offset + get_size(data_type.shape)]

\* RawVertexDescription::add_attribute, description.rs 31-37: the attribute
\* gets the current offset, which moves on by 4 bytes per component.
add_attribute(raw, data_type, kind) ==
    [attributes |-> Append(raw.attributes,
                        [data_type |-> data_type, kind |-> kind,
                         offset |-> raw.current_offset]),
     current_offset |-> raw.current_offset + get_size(data_type.shape) * 4]

\* The description made by add_attribute for each of attrs, in order.
RECURSIVE Describe(_, _)
Describe(raw, attrs) ==
    IF attrs = <<>> THEN raw
    ELSE Describe(add_attribute(raw, Head(attrs).data_type, Head(attrs).kind), Tail(attrs))

\* The VertexAttributeHandle { offset } values add_attribute returned.
Handles(raw) == {[offset |-> raw.attributes[i].offset] : i \in 1 .. Len(raw.attributes)}

\* i32::to_ne_bytes, byte k (0 .. 3) of the two's complement of value, least
\* significant byte first.
to_ne_byte(value, k) == (value \div (256 ^ k)) % 256

\* i32::from_ne_bytes of four bytes.
from_ne_bytes(b) ==
    b[1] + 256 * b[2] + 65536 * b[3]
        + 16777216 * (IF b[4] >= 128 THEN b[4] - 256 ELSE b[4])

\* vec![value; n]
vec(value, n) == [i \in 1 .. n |-> value]

\* VertexStoreBuilder { raw_buffer, current_offset }, with the positions
\* written so far and whether an index was out of bounds (a panic: nothing
\* runs after it).
VertexStoreBuilder(initial, buffer_size) ==
    [raw_buffer |-> vec(initial, buffer_size), current_offset |-> 0,
     written |-> {}, panicked |-> FALSE]

\* A faulty variant of put_int_at: the bytes are stored in reverse order.
put_int_at_Reversed(builder, offset, value) ==
    IF builder.panicked THEN builder
    ELSE LET n == Len(builder.raw_buffer)
             inside == {p \in offset .. (offset + 3) : p < n}
         IN [builder EXCEPT
                !.raw_buffer = [p \in 1 .. n |->
                                    IF (p - 1) \in inside
                                        THEN to_ne_byte(value, 3 - (p - 1 - offset))
                                        ELSE builder.raw_buffer[p]],
                !.written = @ \cup inside,
                !.panicked = offset + 3 >= n]

\* VertexStoreBuilder::put_int_at, store.rs 325-330: four bytes, in order;
\* the first position outside the buffer panics.
put_int_at(builder, offset, value) ==
    IF builder.panicked THEN builder
    ELSE LET n == Len(builder.raw_buffer)
             inside == {p \in offset .. (offset + 3) : p < n}
         IN [builder EXCEPT
                !.raw_buffer = [p \in 1 .. n |->
                                    IF (p - 1) \in inside
                                        THEN to_ne_byte(value, p - 1 - offset)
                                        ELSE builder.raw_buffer[p]],
                !.written = @ \cup inside,
                !.panicked = offset + 3 >= n]

\* VertexStoreBuilder::put_int, store.rs 319-322.
put_int(builder, attribute, value) ==
    put_int_at(builder, builder.current_offset + attribute.offset, value)

\* VertexStoreBuilder::put_vec2i, store.rs 364-369.
put_vec2i(builder, attribute, values) ==
    LET base_offset == builder.current_offset + attribute.offset
    IN put_int_at(put_int_at(builder, base_offset, values[1]),
                  base_offset + 4, values[2])

\* f32::to_ne_bytes: an f32 is kept as its bit pattern (an i32), whose bytes
\* are the bytes of the float.
f32(bits) == [bits |-> bits]

\* VertexStoreBuilder::put_float_at, store.rs 339-344: four bytes, in order;
\* the first position outside the buffer panics.
put_float_at(builder, offset, value) ==
    IF builder.panicked THEN builder
    ELSE LET n == Len(builder.raw_buffer)
             inside == {p \in offset .. (offset + 3) : p < n}
         IN [builder EXCEPT
                !.raw_buffer = [p \in 1 .. n |->
                                    IF (p - 1) \in inside
                                        THEN to_ne_byte(value.bits, p - 1 - offset)
                                        ELSE builder.raw_buffer[p]],
                !.written = @ \cup inside,
                !.panicked = offset + 3 >= n]

\* VertexStoreBuilder::put_float, store.rs 333-336.
put_float(builder, attribute, value) ==
    put_float_at(builder, builder.current_offset + attribute.offset, value)

\* VertexStoreBuilder::put_bool_at, store.rs 353-361.
put_bool_at(builder, offset, value) ==
    IF value THEN put_int_at(builder, offset, 1) ELSE put_int_at(builder, offset, 0)

\* VertexStoreBuilder::put_bool, store.rs 347-350.
put_bool(builder, attribute, value) ==
    put_bool_at(builder, builder.current_offset + attribute.offset, value)

\* The loop "for index in 0..N { self.put_int_at(base_offset + 4 * index,
\* values[index]) }" of store.rs 382-384 and 398-400, from index on.
RECURSIVE put_ints_at(_, _, _, _)
put_ints_at(builder, base_offset, values, index) ==
    IF index >= Len(values) THEN builder
    ELSE put_ints_at(put_int_at(builder, base_offset + 4 * index, values[index + 1]),
                     base_offset, values, index + 1)

\* The loop "for index in 0..N { self.put_float_at(base_offset + 4 * index,
\* values[index]) }" of store.rs 374-376, 390-392 and 406-408, from index on.
RECURSIVE put_floats_at(_, _, _, _)
put_floats_at(builder, base_offset, values, index) ==
    IF index >= Len(values) THEN builder
    ELSE put_floats_at(put_float_at(builder, base_offset + 4 * index, values[index + 1]),
                       base_offset, values, index + 1)

\* VertexStoreBuilder::put_vec2f, store.rs 372-377.
put_vec2f(builder, attribute, values) ==
    put_floats_at(builder, builder.current_offset + attribute.offset, values, 0)

\* VertexStoreBuilder::put_vec3i, store.rs 380-385.
put_vec3i(builder, attribute, values) ==
    put_ints_at(builder, builder.current_offset + attribute.offset, values, 0)

\* VertexStoreBuilder::put_vec3f, store.rs 388-393.
put_vec3f(builder, attribute, values) ==
    put_floats_at(builder, builder.current_offset + attribute.offset, values, 0)

\* VertexStoreBuilder::put_vec4i, store.rs 396-401.
put_vec4i(builder, attribute, values) ==
    put_ints_at(builder, builder.current_offset + attribute.offset, values, 0)

\* VertexStoreBuilder::put_vec4f, store.rs 404-409.
put_vec4f(builder, attribute, values) ==
    put_floats_at(builder, builder.current_offset + attribute.offset, values, 0)

\* Vertex::store of a vertex (vertex/mod.rs 132-136): the put calls of the
\* vertices' type from the i-th on, each with the vertex's index as value.
RECURSIVE Vertex_store(_, _, _, _)
Vertex_store(vertex, puts, i, builder) ==
    IF i > Len(puts) THEN builder
    ELSE Vertex_store(vertex, puts, i + 1,
            IF puts[i].op = "put_int"
                THEN put_int(builder, puts[i].attribute, vertex.index)
                ELSE put_vec2i(builder, puts[i].attribute,
                               <<vertex.index, vertex.index>>))

\* store.rs 57-60 and 78-81: every vertex stores itself and the offset moves
\* on by the vertex size.
RECURSIVE Fill(_, _, _, _, _)
Fill(vs, puts, i, vertex_size, builder) ==
    IF i > Len(vs) \/ builder.panicked THEN builder
    ELSE Fill(vs, puts, i + 1, vertex_size,
            [Vertex_store(vs[i], puts, 1, builder) EXCEPT
                !.current_offset = @ + vertex_size])

\* debug::log, debug.rs 33-45: one line "[Griphin] [source]: message"; a line
\* is the sequence of its words and punctuation marks.
log(lines, source, message) ==
    Append(lines, <<"[Griphin]", "[" \o source \o "]:">> \o message)

\* The messages of VertexStore::new (store.rs 44, 47, 87-88, 209, 213).
EmptySliceMessage == <<"You", "passed", "an", "empty", "slice", "of", "vertices", ".">>
NoAttributesMessage ==
    <<"The", "vertex", "description", "doesn't", "have", "any", "attributes", ".">>
NotFilledMessage ==
    <<"Not", "the", "entire", "vertex", "buffer", "seems", "to", "have", "been",
      "filled", ".", "Did", "you", "forget", "to", "store", "one", "of", "the",
      "vertex", "attributes", "?">>
IndexNotIntMessage == <<"An", "Index", "attribute", "is", "not", "of", "type", "INT">>
IndexOutOfRangeMessage == <<"An", "index", "attribute", "is", "out", "of", "range">>

\* store.rs 42-49: the checks of debug level Low.
LowChecks(lines, raw, vs, level) ==
    IF ~AtLeast(level, "Low") THEN lines
    ELSE LET l1 == IF vs = <<>>
                     THEN log(lines, "VertexStore::new", EmptySliceMessage) ELSE lines
         IN IF raw.attributes = <<>>
              THEN log(l1, "VertexStore::new", NoAttributesMessage) ELSE l1

\* A faulty variant of NotFilled: the second buffer starts with the same
\* byte value as the first.
NotFilled_SameInitial(store_builder, vs, puts, vertex_size) ==
    store_builder.raw_buffer
        # Fill(vs, puts, 1, vertex_size,
               VertexStoreBuilder(0, Len(store_builder.raw_buffer))).raw_buffer

\* store.rs 74-83: the vertices are stored again in a buffer that starts
\* with ones, and the two buffers are compared.
NotFilled(store_builder, vs, puts, vertex_size) ==
    store_builder.raw_buffer
        # Fill(vs, puts, 1, vertex_size,
               VertexStoreBuilder(1, Len(store_builder.raw_buffer))).raw_buffer

\* store.rs 104-116: the int_values of an attribute of the vertex at
\* vertex_offset.
int_values(raw_buffer, attribute, vertex_offset) ==
    [counter \in 1 .. get_size(attribute.data_type.shape) |->
        from_ne_bytes([index \in 1 .. 4 |->
            raw_buffer[attribute.offset + vertex_offset + 4 * (counter - 1) + index]])]

\* store.rs 207-216: the checks of an Index attribute, value by value from
\* the i-th on (the bound is below 2^31, so "bound as i32" keeps its value).
RECURSIVE IndexValueChecks(_, _, _, _)
IndexValueChecks(lines, values, i, bound) ==
    IF i > Len(values) THEN lines
    ELSE IndexValueChecks(
            IF values[i] < 0 \/ values[i] >= bound
                THEN log(lines, "VertexStore::new", IndexOutOfRangeMessage)
                ELSE lines,
            values, i + 1, bound)

\* store.rs 121-220: the match on the attribute's kind.
AttributeChecks(lines, raw_buffer, attribute, vertex_offset) ==
    IF attribute.kind.tag = "Index"
    THEN IndexValueChecks(
            IF attribute.data_type.kind # INT.kind
                THEN log(lines, "VertexStore::new", IndexNotIntMessage)
                ELSE lines,
            int_values(raw_buffer, attribute, vertex_offset), 1, attribute.kind.bound)
    ELSE lines

\* store.rs 100-221: the loop over the attributes, for one vertex.
RECURSIVE AttributesChecks(_, _, _, _, _)
AttributesChecks(lines, raw_buffer, attributes, i, vertex_offset) ==
    IF i > Len(attributes) THEN lines
    ELSE AttributesChecks(
            AttributeChecks(lines, raw_buffer, attributes[i], vertex_offset),
            raw_buffer, attributes, i + 1, vertex_offset)

\* store.rs 93-222: the checks of debug level High, vertex by vertex from
\* vertex_index (counted from 1) on.
RECURSIVE HighChecks(_, _, _, _, _)
HighChecks(lines, raw_buffer, raw, vertex_index, num_vertices) ==
    IF vertex_index > num_vertices THEN lines
    ELSE HighChecks(
            AttributesChecks(lines, raw_buffer, raw.attributes, 1,
                             (vertex_index - 1) * raw.current_offset),
            raw_buffer, raw, vertex_index + 1, num_vertices)

\* VertexStore::new(description, vertices, debug_level, writer), store.rs
\* 32-276: the store returned, the lines logged and the positions written.
VertexStore_new(raw, vs, puts, level) ==
    LET vertex_size == raw.current_offset
        buffer_size == vertex_size * Len(vs)
        low == LowChecks(<<>>, raw, vs, level)
        store_builder ==
            Fill(vs, puts, 1, vertex_size, VertexStoreBuilder(0, buffer_size))
        basic == IF AtLeast(level, "Basic")
                        /\ NotFilled(store_builder, vs, puts, vertex_size)
                    THEN log(low, "VertexStore::new", NotFilledMessage)
                    ELSE low
        high == IF AtLeast(level, "High")
                    THEN HighChecks(basic, store_builder.raw_buffer, raw, 1, Len(vs))
                    ELSE basic
    IN IF store_builder.panicked
       THEN [vertex_store |-> [result |-> "panic: index out of bounds"],
             writer |-> low, written |-> store_builder.written]
       ELSE [vertex_store |-> [result |-> "ok", raw_buffer |-> store_builder.raw_buffer],
             writer |-> high, written |-> store_builder.written]

\* The data types and values of the vertex store's inputs.
AttributeDataType == {INT, FLOAT, INT_VEC2}
IndexValues == {-1, 0, IndexBound - 1, IndexBound}

\* The put calls a store method may make for a description.
Puts(raw) == [op : {"put_int", "put_vec2i"}, attribute : Handles(raw)]

\* Any description of at most MaxAttributes attributes, any store method of
\* at most MaxPuts put calls with its handles, any slice of at most
\* MaxVertices vertices, any debug level; there is no render flow and there
\* are no shaders.
InitVertex ==
    /\ RenderFlowBuilder_new({})
    /\ NoShaders
    /\ \E attrs \in SeqUpTo([data_type : AttributeDataType, kind : AttributeKind],
                             MaxAttributes) :
            description = Describe(RawVertexDescription_new, attrs)
    /\ store \in SeqUpTo(Puts(description), MaxPuts)
    /\ vertices \in SeqUpTo([index : IndexValues], MaxVertices)
    /\ debug_level \in {DebugLevel[i] : i \in 1 .. Len(DebugLevel)}
    /\ writer = <<>>
    /\ written = {}
    /\ vertex_store = [result |-> "none"]
    /\ added = <<>>
    /\ NoDump
    /\ NoPuts

\* VertexStore::new is called with the description and the vertices.
VertexStoreNew ==
    /\ vertex_store.result = "none"
    /\ LET new == VertexStore_new(description, vertices, store, debug_level)
       IN /\ vertex_store' = new.vertex_store
          /\ writer' = new.writer
          /\ written' = new.written
    /\ UNCHANGED <<flowVars, shaderVars, description, store, vertices, debug_level,
                   added, dumpVars, putVars>>

NextVertex == VertexStoreNew

SpecVertex == InitVertex /\ [][NextVertex]_vars

\* ========================================================= vertex layout

\* DataType::new(kind, shape), data.rs 93-95, for every kind and shape.
LayoutDataType == [kind : DataKind, shape : DOMAIN DataShape]

\* description.rs 32 and 36: the handle add_attribute returns carries the
\* offset the description had before the call.
VertexAttributeHandle(raw) == [offset |-> raw.current_offset]

\* A fresh description; there is no render flow, there are no shaders and no
\* vertices.
InitLayout ==
    /\ RenderFlowBuilder_new({})
    /\ NoShaders
    /\ NoVertices
    /\ NoDump
    /\ NoPuts

\* RawVertexDescription::add_attribute(&mut self, name, data_type, kind),
\* description.rs 31-37, called on the description.  (The usize offset
\* cannot wrap within the bounds: an attribute adds at most 64.)
AddAttribute ==
    /\ Len(description.attributes) < MaxLayoutAttributes
    /\ \E data_type \in LayoutDataType : \E kind \in AttributeKind :
            /\ description' = add_attribute(description, data_type, kind)
            /\ added' = Append(added, [data_type |-> data_type, kind |-> kind,
                                       handle |-> VertexAttributeHandle(description)])
    /\ UNCHANGED <<flowVars, shaderVars, store, vertices, debug_level, writer,
                   written, vertex_store, dumpVars, putVars>>

NextLayout == AddAttribute

SpecLayout == InitLayout /\ [][NextLayout]_vars

\* ======================================================= colour grid dump

\* "as u32" of a usize below 2^31.
as_u32(n) == U32((n \div 65536) % 65536, n % 65536)

\* The product of two 16-bit numbers, as a u32.
Mul16(a, b) ==
    LET x == a * (b % 256)
        y == a * (b \div 256)
        low == x + 256 * (y % 256)
    IN U32((y \div 256) + (low \div 65536), low % 65536)

\* Whether the product of two u32 values does not fit in a u32.
mul_overflows(a, b) ==
    \/ a.hi # 0 /\ b.hi # 0
    \/ Mul16(a.hi, b.lo).hi # 0
    \/ Mul16(a.lo, b.hi).hi # 0
    \/ Mul16(a.lo, b.lo).hi + Mul16(a.hi, b.lo).lo + Mul16(a.lo, b.hi).lo >= 65536

\* u32::wrapping_mul: the product modulo 2^32.
wrapping_mul(a, b) ==
    U32((Mul16(a.lo, b.lo).hi + Mul16(a.hi, b.lo).lo + Mul16(a.lo, b.hi).lo) % 65536,
        Mul16(a.lo, b.lo).lo)

\* The u32 quotient a / b for a below 2^31 and b other than 0.
u32_div(a, b) ==
    IF b.hi >= 32768
        THEN U32(0, 0)
        ELSE as_u32((a.hi * 65536 + a.lo) \div (b.hi * 65536 + b.lo))

\* ColorGridDump::new(data, width, height), dump.rs 36-47.  The product of
\* line 37 panics on overflow in a build with overflow checks and wraps in
\* one without.  Of data only the length is kept.
ColorGridDump_new(data_len, width, height, checked) ==
    IF checked /\ mul_overflows(width, height)
    THEN [result |-> "panic: attempt to multiply with overflow"]
    ELSE IF wrapping_mul(width, height) # as_u32(data_len)
    THEN [result |-> "panic: width * height must be equal to the size of data"]
    ELSE [result |-> "ok", data_len |-> data_len, width |-> width]

\* ColorGridDump::get_width, dump.rs 59-61.
get_width(self) == [result |-> "ok", value |-> self.width]

\* ColorGridDump::get_height, dump.rs 65-67: a division by zero panics in
\* every build.
get_height(self) ==
    IF self.width = U32(0, 0)
    THEN [result |-> "panic: attempt to divide by zero"]
    ELSE [result |-> "ok", value |-> u32_div(as_u32(self.data_len), self.width)]

\* The widths and heights tried: small ones, 2^16, 2^31 and 2^32 - 1.
DumpDimensions ==
    {U32(0, 0), U32(0, 1), U32(0, 2), U32(0, 3), U32(1, 0), U32(32768, 0),
     U32(65535, 65535)}

\* Any data of at most MaxDumpLen colours, any of the widths and heights, in
\* either kind of build; there is no render flow, there are no shaders and
\* no vertices.
InitDump ==
    /\ RenderFlowBuilder_new({})
    /\ NoShaders
    /\ NoVertices
    /\ dump_input \in [data_len : 0 .. MaxDumpLen, width : DumpDimensions,
                        height : DumpDimensions]
    /\ overflow_checks \in BOOLEAN
    /\ color_grid_dump = [result |-> "none"]
    /\ got = [get_width |-> [result |-> "none"], get_height |-> [result |-> "none"]]
    /\ NoPuts

\* ColorGridDump::new is called with the arguments.
ColorGridDumpNew ==
    /\ color_grid_dump.result = "none"
    /\ color_grid_dump' = ColorGridDump_new(dump_input.data_len, dump_input.width,
                                            dump_input.height, overflow_checks)
    /\ UNCHANGED <<flowVars, shaderVars, vertexVars, dump_input, overflow_checks, got,
                   putVars>>

\* get_width is called on the dump.
GetWidth ==
    /\ color_grid_dump.result = "ok"
    /\ got.get_width.result = "none"
    /\ got' = [got EXCEPT !.get_width = get_width(color_grid_dump)]
    /\ UNCHANGED <<flowVars, shaderVars, vertexVars, dump_input, overflow_checks,
                   color_grid_dump, putVars>>

\* get_height is called on the dump.
GetHeight ==
    /\ color_grid_dump.result = "ok"
    /\ got.get_height.result = "none"
    /\ got' = [got EXCEPT !.get_height = get_height(color_grid_dump)]
    /\ UNCHANGED <<flowVars, shaderVars, vertexVars, dump_input, overflow_checks,
                   color_grid_dump, putVars>>

NextDump == ColorGridDumpNew \/ GetWidth \/ GetHeight

SpecDump == InitDump /\ [][NextDump]_vars

\* ========================================================= put operations

\* The values put: i32 and f32 (4.89176 and -0.5, as bit patterns) as in
\* the tests of store.rs 418-593, and vectors of them.
IntValues == {-1234567890, 1}
FloatValues == {f32(1084000588), f32(-1090519040)}

\* The raw buffers: filled with one byte value as in the tests (store.rs
\* 421, 459, 497), or with a different value at every position.
RawBuffers ==
    {vec(2, MaxPutBuffer), vec(5, MaxPutBuffer), [p \in 1 .. MaxPutBuffer |-> 100 + p]}

\* The calls of the put methods: the method, the attribute handle and the
\* value.
PutCalls ==
    [op : {"put_int"}, attribute : [offset : 0 .. MaxPutOffset], value : IntValues]
    \cup [op : {"put_float"}, attribute : [offset : 0 .. MaxPutOffset], value : FloatValues]
    \cup [op : {"put_bool"}, attribute : [offset : 0 .. MaxPutOffset], value : BOOLEAN]
    \cup [op : {"put_vec2i"}, attribute : [offset : 0 .. MaxPutOffset],
          value : [1 .. 2 -> IntValues]]
    \cup [op : {"put_vec3i"}, attribute : [offset : 0 .. MaxPutOffset],
          value : [1 .. 3 -> IntValues]]
    \cup [op : {"put_vec4i"}, attribute : [offset : 0 .. MaxPutOffset],
          value : [1 .. 4 -> IntValues]]
    \cup [op : {"put_vec2f"}, attribute : [offset : 0 .. MaxPutOffset],
          value : [1 .. 2 -> FloatValues]]
    \cup [op : {"put_vec3f"}, attribute : [offset : 0 .. MaxPutOffset],
          value : [1 .. 3 -> FloatValues]]
    \cup [op : {"put_vec4f"}, attribute : [offset : 0 .. MaxPutOffset],
          value : [1 .. 4 -> FloatValues]]

\* The method c.op called on the builder with c.attribute and c.value.
PutCall(builder, c) ==
    CASE c.op = "put_int" -> put_int(builder, c.attribute, c.value)
      [] c.op = "put_float" -> put_float(builder, c.attribute, c.value)
      [] c.op = "put_bool" -> put_bool(builder, c.attribute, c.value)
      [] c.op = "put_vec2i" -> put_vec2i(builder, c.attribute, c.value)
      [] c.op = "put_vec3i" -> put_vec3i(builder, c.attribute, c.value)
      [] c.op = "put_vec4i" -> put_vec4i(builder, c.attribute, c.value)
      [] c.op = "put_vec2f" -> put_vec2f(builder, c.attribute, c.value)
      [] c.op = "put_vec3f" -> put_vec3f(builder, c.attribute, c.value)
      [] c.op = "put_vec4f" -> put_vec4f(builder, c.attribute, c.value)

\* Any builder with one of the raw buffers and a current_offset of at most
\* MaxPutOffset; there is no render flow, there are no shaders, no vertices
\* and no dump.
InitPut ==
    /\ RenderFlowBuilder_new({})
    /\ NoShaders
    /\ NoVertices
    /\ NoDump
    /\ vertex_store_builder \in [raw_buffer : RawBuffers, current_offset : 0 .. MaxPutOffset,
                           written : {{}}, panicked : {FALSE}]
    /\ put = [op |-> "none"]

\* One of the put methods is called on the builder.
Put ==
    /\ put.op = "none"
    /\ \E c \in PutCalls :
            /\ vertex_store_builder' = PutCall(vertex_store_builder, c)
            /\ put' = [op |-> c.op, attribute |-> c.attribute, value |-> c.value,
                       before |-> vertex_store_builder]
    /\ UNCHANGED <<flowVars, shaderVars, vertexVars, dumpVars>>

NextPut == Put

SpecPut == InitPut /\ [][NextPut]_vars

\* ================================================================ claims

\* The grids a sketch names as inputs, and as outputs.
SketchInputs(sketch) == {sketch.inputs[i].grid_id : i \in 1 .. Len(sketch.inputs)}
SketchOutputs(sketch) == {sketch.outputs[i].grid_id : i \in 1 .. Len(sketch.outputs)}
\* Every grid a sketch names.
SketchGrids(sketch) ==
    SketchInputs(sketch) \cup SketchOutputs(sketch) \cup {sketch.depth_stencil_grid}
\* The grids a sketch writes: its outputs and its depth/stencil grid.
SketchWrites(sketch) == SketchOutputs(sketch) \cup {sketch.depth_stencil_grid}

\* The handles a task declaration binds.
TaskHandles(task) ==
    BoundHandles(task.inputs) \cup BoundHandles(task.outputs) \cup {task.depth_stencil_grid}

\* The step just taken was a call of add_render_task (read in the next state).
IsAddRenderTask == call'.op = "add_render_task"

\* ---- C1
\* C1 (read-after-write): in every builder, a sketch that names as an input a
\* grid which an earlier sketch of the builder names as an output or as its
\* depth/stencil grid has a strictly greater moment than that earlier sketch.
C1_ReadAfterWrite ==
    \A b \in Builders : \A i, j \in 1 .. Len(drawing_nodes[b]) :
        (i < j /\ SketchInputs(drawing_nodes[b][j])
                      \cap SketchWrites(drawing_nodes[b][i]) # {})
            => drawing_nodes[b][j].moment > drawing_nodes[b][i].moment

\* ---- C2
\* C2 (write-after-read): in every builder, a sketch that names as an output a
\* grid which an earlier sketch of the builder names as an input has a
\* strictly greater moment than that earlier sketch, whatever was added in
\* between.
C2_WriteAfterRead ==
    \A b \in Builders : \A i, j \in 1 .. Len(drawing_nodes[b]) :
        (i < j /\ SketchOutputs(drawing_nodes[b][j])
                      \cap SketchInputs(drawing_nodes[b][i]) # {})
            => drawing_nodes[b][j].moment > drawing_nodes[b][i].moment

\* ---- C3
\* C3 (write-after-write): in every builder, a sketch that names as an output
\* a grid which an earlier sketch of the builder names as an output has a
\* strictly greater moment than that earlier sketch.
C3_WriteAfterWrite ==
    \A b \in Builders : \A i, j \in 1 .. Len(drawing_nodes[b]) :
        (i < j /\ SketchOutputs(drawing_nodes[b][j])
                      \cap SketchOutputs(drawing_nodes[b][i]) # {})
            => drawing_nodes[b][j].moment > drawing_nodes[b][i].moment

\* ---- C4
\* C4 (equal moments are concurrent-safe): two distinct sketches of a builder
\* with the same moment never conflict: neither names as an output a grid the
\* other names as an input or as an output.
C4_EqualMomentsDisjoint ==
    \A b \in Builders : \A i, j \in 1 .. Len(drawing_nodes[b]) :
        (i # j /\ drawing_nodes[b][i].moment = drawing_nodes[b][j].moment)
            => SketchOutputs(drawing_nodes[b][i])
                   \cap (SketchInputs(drawing_nodes[b][j])
                            \cup SketchOutputs(drawing_nodes[b][j])) = {}

\* ---- C5
\* C5 (guarantee of add_render_task): a sketch that shares a grid with an
\* earlier sketch of the builder has a strictly greater moment, or at least
\* an equal one when one of the two uses the shared grid as depth/stencil
\* grid.  Stated here for the hazards the guarantee is about: the pairs in
\* which at least one of the two sketches writes the shared grid (two sketches
\* that only read a grid are no hazard).
C5_LaterTaskOrdered ==
    \A b \in Builders : \A i, j \in 1 .. Len(drawing_nodes[b]) :
        \A g \in SketchGrids(drawing_nodes[b][i]) \cap SketchGrids(drawing_nodes[b][j]) :
            (i < j /\ (g \in SketchWrites(drawing_nodes[b][i])
                        \/ g \in SketchWrites(drawing_nodes[b][j])))
                => IF g = drawing_nodes[b][i].depth_stencil_grid
                        \/ g = drawing_nodes[b][j].depth_stencil_grid
                   THEN drawing_nodes[b][j].moment >= drawing_nodes[b][i].moment
                   ELSE drawing_nodes[b][j].moment > drawing_nodes[b][i].moment

\* ---- C6
\* C6 (monotone reads): no step lowers the last_read_moment of a grid handle.
C6_ReadsMonotone ==
    [][\A h \in DOMAIN handles \cap DOMAIN handles' :
            handles'[h].last_read_moment >= handles[h].last_read_moment]_vars

\* ---- C7
\* C7 (monotone writes): no step lowers the last_write_moment of a grid
\* handle; add_render_task strictly raises it for every handle bound as an
\* output and leaves it as it was for every handle bound as an input.
C7_WritesMonotone ==
    [][/\ \A h \in DOMAIN handles \cap DOMAIN handles' :
            handles'[h].last_write_moment >= handles[h].last_write_moment
       /\ IsAddRenderTask =>
            /\ \A h \in BoundHandles(call'.task.outputs) :
                    handles'[h].last_write_moment > handles[h].last_write_moment
            /\ \A h \in BoundHandles(call'.task.inputs) :
                    handles'[h].last_write_moment = handles[h].last_write_moment]_vars

\* A task with an input and an output was added, and the output had been
\* written before (its last write moved from a moment >= 1 to a later one).
C7_Witness ==
    /\ call.op = "add_render_task"
    /\ call.task.inputs # <<>>
    /\ \E h \in BoundHandles(call.task.outputs) : handles[h].last_write_moment >= 2

\* ---- C8
\* C8 (unregistered handle): a call of add_render_task whose task binds a
\* handle that this builder's add_grid_node did not return ends in a panic,
\* records no sketch and changes no hazard state.
C8_UnregisteredHandleFailsFast ==
    [][(IsAddRenderTask /\ \E h \in TaskHandles(call'.task) : h[1] # call'.self)
            => /\ call'.result # "ok"
               /\ drawing_nodes' = drawing_nodes
               /\ handles' = handles]_vars

\* ---- C9
\* C9 (no aliasing across builders): a call on one builder never changes the
\* last_write_moment or last_read_moment of a handle that another builder's
\* add_grid_node returned.
C9_NoCrossBuilderHazardChange ==
    [][\A h \in DOMAIN handles \cap DOMAIN handles' :
            h[1] # call'.self =>
                /\ handles'[h].last_write_moment = handles[h].last_write_moment
                /\ handles'[h].last_read_moment = handles[h].last_read_moment]_vars

\* ---- C10
\* C10 (duplicate registration): add_grid_node panics with the duplicate
\* message whenever the builder already has an entry for the grid (left by
\* an earlier add_grid_node that returned), whatever the preserve_content
\* of either call; for a grid of the builder's group that has no entry yet it
\* returns, leaving an entry and a handle for the grid.
C10_DuplicateGridNodePanics ==
    [][call'.op = "add_grid_node" =>
            /\ call'.grid \in DOMAIN used_grids[call'.self]
                    => call'.result = "panic: duplicate grid node"
            /\ (call'.grid \notin DOMAIN used_grids[call'.self]
                    /\ call'.grid.group_id = call'.self.group_id)
                    => /\ call'.result = "ok"
                       /\ call'.grid \in DOMAIN used_grids'[call'.self]
                       /\ <<call'.self, call'.grid>> \in DOMAIN handles']_vars

\* A second add_grid_node for a grid, with preserve_content TRUE, panicked.
C10_Witness ==
    /\ call.op = "add_grid_node"
    /\ call.result = "panic: duplicate grid node"
    /\ call.preserve_content

\* ---- C11
\* C11 (foreign grid): add_grid_node panics whenever the group_id of the grid
\* differs from the group_id of the builder's id, and that call leaves the
\* builder's registered grids with their retention flags, its sketches and
\* the handles as they were; a grid of the builder's own group never gets
\* the scope panic.
C11_ForeignGridNodePanics ==
    [][call'.op = "add_grid_node" =>
            IF call'.grid.group_id # call'.self.group_id
            THEN /\ call'.result = "panic: grid of another group"
                 /\ used_grids' = used_grids
                 /\ drawing_nodes' = drawing_nodes
                 /\ handles' = handles
            ELSE call'.result # "panic: grid of another group"]_vars

\* A builder that has registered grids was handed a grid of another group.
C11_Witness ==
    /\ call.op = "add_grid_node"
    /\ call.grid.group_id # call.self.group_id
    /\ DOMAIN used_grids[call.self] # {}

\* The grids a task declaration names, in any role.
TaskGrids(task) == {get_grid_id(h) : h \in TaskHandles(task)}

\* The task declarations of the second world.
FlowTasks ==
    RenderTaskBuilder(MaxFlowBindings, MaxFlowBindings, FlowColors, FlowDepthStencils)

\* ---- C12
\* C12 (independence): when a task t1 is added, every task t2 that names no
\* grid t1 names would get the same moment after t1 as before it, and adding
\* t2 after t1 leaves the same hazard state as adding t1 after t2 (every
\* step is a t1, so either task of a pair is checked in both places); and a
\* task all of whose grids are fresh, never read nor written, gets moment 1.
C12_DisjointTasksIndependent ==
    [][IsAddRenderTask =>
        /\ \A t2 \in FlowTasks :
                TaskGrids(t2) \cap TaskGrids(call'.task) = {} =>
                    /\ TaskMoment(t2)' = TaskMoment(t2)
                    /\ CommitTask(handles', t2, TaskMoment(t2)')
                        = CommitTask(CommitTask(handles, t2, TaskMoment(t2)),
                                     call'.task, TaskMoment(call'.task))
        /\ (\A h \in TaskHandles(call'.task) :
                handles[h] = FlowGridBuilder_new(get_grid_id(h)))
            => drawing_nodes'[call'.self][Len(drawing_nodes'[call'.self])].moment = 1
      ]_vars

\* The last two sketches of a builder each write a colour grid, share no
\* grid and have the same moment; the builder had a task before them.
C12_Witness ==
    \E b \in Builders :
        LET n == Len(drawing_nodes[b])
        IN /\ n >= 3
           /\ call.op = "add_render_task"
           /\ SketchOutputs(drawing_nodes[b][n]) # {}
           /\ SketchOutputs(drawing_nodes[b][n - 1]) # {}
           /\ SketchGrids(drawing_nodes[b][n])
                \cap SketchGrids(drawing_nodes[b][n - 1]) = {}
           /\ drawing_nodes[b][n].moment = drawing_nodes[b][n - 1].moment

\* The first n sketches of the list d are those of scenario A on the grid R:
\* a task with no inputs and the output R, a task with the input R and no
\* outputs, a task with no inputs and the output R, none of them with R as
\* its depth/stencil grid.
ScenarioA(d, n, R) ==
    /\ Len(d) >= n
    /\ \A k \in 1 .. n : d[k].depth_stencil_grid # R
    /\ n >= 1 => (d[1].inputs = <<>> /\ Len(d[1].outputs) = 1 /\ d[1].outputs[1].grid_id = R)
    /\ n >= 2 => (d[2].outputs = <<>> /\ Len(d[2].inputs) = 1 /\ d[2].inputs[1].grid_id = R)
    /\ n >= 3 => (d[3].inputs = <<>> /\ Len(d[3].outputs) = 1 /\ d[3].outputs[1].grid_id = R)

\* ---- C13
\* C13 (scenario A): when the first tasks added to a fresh builder are T1
\* (no inputs, output R), T2 (input R, no outputs) and T3 (no inputs, output
\* R), each with a depth/stencil grid other than R, their moments are 1, 2
\* and 3 (as far as the tasks have been added).
C13_ScenarioAMoments ==
    \A b \in Builders : \A R \in FlowColors : \A n \in 1 .. 3 :
        ScenarioA(drawing_nodes[b], n, R) => drawing_nodes[b][n].moment = n

\* The three tasks of scenario A have been added, T2 and T3 with the same
\* depth/stencil grid.
C13_Witness ==
    \E b \in Builders : \E R \in FlowColors :
        /\ ScenarioA(drawing_nodes[b], 3, R)
        /\ drawing_nodes[b][2].depth_stencil_grid = drawing_nodes[b][3].depth_stencil_grid

\* ---- C14
\* C14 (depth/stencil inclusive bound): of two sketches of a builder with the
\* same depth/stencil grid the later one has no smaller moment; and when the
\* later one is the next sketch and has no inputs and no outputs, it has
\* the same moment.
C14_DepthStencilInclusive ==
    \A b \in Builders : \A i, j \in 1 .. Len(drawing_nodes[b]) :
        (i < j /\ drawing_nodes[b][i].depth_stencil_grid
                    = drawing_nodes[b][j].depth_stencil_grid)
            => /\ drawing_nodes[b][j].moment >= drawing_nodes[b][i].moment
               /\ (j = i + 1 /\ drawing_nodes[b][j].inputs = <<>>
                        /\ drawing_nodes[b][j].outputs = <<>>)
                    => drawing_nodes[b][j].moment = drawing_nodes[b][i].moment

\* ---- C15
\* C15 (idempotent retention flag): preserve_grid_node with a handle of a grid
\* the builder has registered returns and leaves that grid's
\* preserve_final_content true, its preserve_initial_content, the entries of
\* the other grids, the other builders and all sketches as they were; applied
\* to a grid whose flag is already true it changes nothing of the builders.
C15_PreserveIdempotent ==
    [][(call'.op = "preserve_grid_node"
            /\ get_grid_id(call'.grid_node) \in DOMAIN used_grids[call'.self])
        => LET self == call'.self
               g == get_grid_id(call'.grid_node)
           IN /\ call'.result = "ok"
              /\ used_grids'[self][g].preserve_final_content = TRUE
              /\ used_grids'[self][g].preserve_initial_content
                    = used_grids[self][g].preserve_initial_content
              /\ DOMAIN used_grids'[self] = DOMAIN used_grids[self]
              /\ \A k \in DOMAIN used_grids[self] \ {g} :
                    used_grids'[self][k] = used_grids[self][k]
              /\ \A b \in Builders \ {self} : used_grids'[b] = used_grids[b]
              /\ drawing_nodes' = drawing_nodes
              /\ used_grids[self][g].preserve_final_content
                    => used_grids' = used_grids]_vars

\* preserve_grid_node was applied a second time to a grid of a builder that
\* has a sketch: the builder's own handle of the grid is gone (moved into the
\* first call, the other builder having no set flag for the grid), and this
\* call was made with the other builder's handle of the same grid.
C15_Witness ==
    /\ call.op = "preserve_grid_node"
    /\ call.result = "ok"
    /\ call.grid_node[1] # call.self
    /\ <<call.self, call.grid_node[2]>> \notin DOMAIN handles
    /\ ~used_grids[call.grid_node[1]][call.grid_node[2]].preserve_final_content
    /\ drawing_nodes[call.self] # <<>>

\* The list of sketch bindings sketches carries the declared bindings, in
\* their order: the grid id of each handle and the shader variable name.
CarriesBindings(sketches, bindings) ==
    /\ Len(sketches) = Len(bindings)
    /\ \A i \in 1 .. Len(bindings) :
            /\ sketches[i].grid_id = handles[bindings[i].grid].grid_id
            /\ sketches[i].shader_variable_name = bindings[i].shader_variable_name

VariablesOf(variables, variable_type) ==
    {variables[i] : i \in {k \in 1 .. Len(variables) :
                                variables[k].variable_type = variable_type}}

\* For one interpolation class: every vertex output has a same-named fragment
\* input of the class with the same data type, and every fragment input of
\* the class has a same-named vertex output.
ClassLinks(output_type, input_type) ==
    /\ \A v \in VariablesOf(vertex_shader, output_type) :
            \E f \in VariablesOf(fragment_shader, input_type) :
                f.name = v.name /\ f.data_type = v.data_type
    /\ \A f \in VariablesOf(fragment_shader, input_type) :
            \E v \in VariablesOf(vertex_shader, output_type) : v.name = f.name

\* Some vertex output and fragment input of one class have the same name and
\* different data types.
HasTypeMismatch ==
    \E c \in {<<"FlatFragmentOutput", "FlatVertexInput">>,
               <<"SmoothFragmentOutput", "SmoothVertexInput">>} :
        \E v \in VariablesOf(vertex_shader, c[1]) :
            \E f \in VariablesOf(fragment_shader, c[2]) :
                v.name = f.name /\ v.data_type # f.data_type

\* Some vertex output has no same-named fragment input of its class.
HasMissingFragmentInput ==
    \E c \in {<<"FlatFragmentOutput", "FlatVertexInput">>,
               <<"SmoothFragmentOutput", "SmoothVertexInput">>} :
        \E v \in VariablesOf(vertex_shader, c[1]) :
            \A f \in VariablesOf(fragment_shader, c[2]) : f.name # v.name

\* Some fragment input has no same-named vertex output of its class.
HasMissingVertexOutput ==
    \E c \in {<<"FlatFragmentOutput", "FlatVertexInput">>,
               <<"SmoothFragmentOutput", "SmoothVertexInput">>} :
        \E f \in VariablesOf(fragment_shader, c[2]) :
            \A v \in VariablesOf(vertex_shader, c[1]) : v.name # f.name

\* The two shaders have been linked.
Linked == shader_pair.type # "Unlinked"

\* ---- C17
\* C17 (linking by names): link_by_attribute_names returns Ok only if the
\* flat and the smooth class both link; when one does not, it returns a
\* Specific error, which is TypeMismatch when there is a type mismatch,
\* else MissingFragmentInput when a vertex output has no fragment input,
\* else MissingVertexOutput.
C17_LinkByNames ==
    Linked =>
        /\ shader_pair.type = "Ok"
                => /\ ClassLinks("FlatFragmentOutput", "FlatVertexInput")
                   /\ ClassLinks("SmoothFragmentOutput", "SmoothVertexInput")
        /\ ~(/\ ClassLinks("FlatFragmentOutput", "FlatVertexInput")
              /\ ClassLinks("SmoothFragmentOutput", "SmoothVertexInput"))
                => /\ shader_pair.type = "Specific"
                   /\ shader_pair.error.kind =
                        IF HasTypeMismatch THEN "TypeMismatch"
                        ELSE IF HasMissingFragmentInput THEN "MissingFragmentInput"
                        ELSE "MissingVertexOutput"

\* Shaders with a type mismatch, an unmatched vertex output and an unmatched
\* fragment input at once were linked.
C17_Witness ==
    /\ Linked
    /\ HasTypeMismatch
    /\ HasMissingFragmentInput
    /\ HasMissingVertexOutput

\* ---- C18
\* C18 (external variables): when the flat and the smooth class link, and
\* the vertex shader and the fragment shader have an External variable of
\* the same name with different data types, link_by_attribute_names returns
\* a General error (a ShaderExternalVariableMismatch), whatever variables
\* the shaders declare, names repeated or not.
C18_ExternalMismatchIsError ==
    (/\ Linked
     /\ ClassLinks("FlatFragmentOutput", "FlatVertexInput")
     /\ ClassLinks("SmoothFragmentOutput", "SmoothVertexInput")
     /\ ~HasTypeMismatch
     /\ \E v \in VariablesOf(vertex_shader, "External") :
            \E f \in VariablesOf(fragment_shader, "External") :
                v.name = f.name /\ v.data_type # f.data_type)
        => shader_pair.type = "General"

\* Some logged line contains the text (a sequence of words).
Contains(lines, text) ==
    \E l \in 1 .. Len(lines) : \E k \in 0 .. (Len(lines[l]) - Len(text)) :
        SubSeq(lines[l], k + 1, k + Len(text)) = text

\* The positions of the buffer of vertex_size * len bytes.
BufferPositions == 0 .. (description.current_offset * Len(vertices) - 1)

\* The warning of the unfilled buffer, as far as the claim quotes it.
NotFilledText ==
    <<"Not", "the", "entire", "vertex", "buffer", "seems", "to", "have", "been", "filled">>

\* The warning is logged exactly when the debug level is at least Basic and
\* some position of the buffer was not written by the store methods.
UnfilledWarningIffUnwritten ==
    Contains(writer, NotFilledText)
        <=> (AtLeast(debug_level, "Basic") /\ written # BufferPositions)

IndexNegativeText == <<"An", "index", "attribute", "is", "negative">>
IndexNotSmallerText ==
    <<"An", "index", "attribute", "is", "not", "smaller", "than", "the", "bound">>
IndexNotIntText == <<"An", "index", "attribute", "is", "not", "of", "type", "INT">>

\* The indices stored in the returned buffer for an attribute, over all
\* vertices and components.
StoredIndices(attribute) ==
    {int_values(vertex_store.raw_buffer, attribute,
                (v - 1) * description.current_offset)[c] :
        v \in 1 .. Len(vertices), c \in 1 .. get_size(attribute.data_type.shape)}

\* The attributes of the description of kind Index.
IndexAttributes ==
    {description.attributes[i] :
        i \in {k \in 1 .. Len(description.attributes) :
                    description.attributes[k].kind.tag = "Index"}}

\* ---- C20
\* C20 (index attribute warnings): when VertexStore::new returned at a debug
\* level of at least High, then for every attribute of kind Index{bound}:
\* if it is of kind INT, the output contains "An index attribute is
\* negative" when some stored index is < 0 and "An index attribute is not
\* smaller than the bound" when some stored index is >= bound; if it is not
\* of kind INT (and there is a vertex), the output contains "An index
\* attribute is not of type INT".
C20_IndexWarnings ==
    (vertex_store.result = "ok" /\ AtLeast(debug_level, "High"))
        => \A attribute \in IndexAttributes :
            IF attribute.data_type.kind = INT.kind
            THEN /\ (\E index \in StoredIndices(attribute) : index < 0)
                        => Contains(writer, IndexNegativeText)
                 /\ (\E index \in StoredIndices(attribute) :
                            index >= attribute.kind.bound)
                        => Contains(writer, IndexNotSmallerText)
            ELSE vertices # <<>> => Contains(writer, IndexNotIntText)

\* The sum of the shape sizes of the attributes of the first n calls.
RECURSIVE SumOfSizes(_)
SumOfSizes(n) ==
    IF n = 0 THEN 0
    ELSE SumOfSizes(n - 1) + DataShape[added[n].data_type.shape]

\* The byte range [offset, offset + 4 * size) of the k-th attribute.
ByteRange(k) ==
    LET attribute == description.attributes[k]
    IN attribute.offset
        .. (attribute.offset + 4 * DataShape[attribute.data_type.shape] - 1)

\* ---- C21
\* C21 (vertex layout): after any sequence of add_attribute calls, the
\* handle the k-th call returned has an offset of 4 times the sum of the
\* shape sizes of the attributes added before it, get_size() is 4 times the
\* sum of all shape sizes, get_attributes() lists the attributes in the order
\* of the calls, and the byte ranges of the attributes are pairwise disjoint
\* and cover exactly the bytes 0 .. get_size() - 1.
C21_VertexLayout ==
    LET n == Len(added)
    IN /\ \A k \in 1 .. n : added[k].handle.offset = 4 * SumOfSizes(k - 1)
       /\ description.current_offset = 4 * SumOfSizes(n)
       /\ Len(description.attributes) = n
       /\ \A k \in 1 .. n :
            /\ description.attributes[k].data_type = added[k].data_type
            /\ description.attributes[k].kind = added[k].kind
            /\ description.attributes[k].offset = added[k].handle.offset
       /\ \A j, k \in 1 .. n : j # k => ByteRange(j) \cap ByteRange(k) = {}
       /\ UNION {ByteRange(k) : k \in 1 .. n}
            = 0 .. (description.current_offset - 1)

\* Three attributes of three different sizes were added, a matrix first.
C21_Witness ==
    /\ Len(added) = 3
    /\ added[1].data_type.shape = "MAT3"
    /\ added[2].data_type.shape = "SINGLE"
    /\ added[3].data_type.shape = "VEC3"

\* width * height equals the length of the data, as numbers (the length
\* being small).
ProductIsLength ==
    LET n == dump_input.data_len
        w == dump_input.width
        h == dump_input.height
    IN IF n = 0
       THEN w = U32(0, 0) \/ h = U32(0, 0)
       ELSE /\ w.hi = 0 /\ w.lo \in 1 .. n
            /\ h.hi = 0 /\ h.lo \in 1 .. n
            /\ w.lo * h.lo = n

\* ---- C22
\* C22 (dump dimensions): ColorGridDump::new(data, width, height) returns
\* only if width * height equals data.len(), and on every dump it returned
\* get_width() returns width and get_height() returns height, without
\* panicking.
C22_DumpDimensions ==
    /\ color_grid_dump.result = "ok" => ProductIsLength
    /\ got.get_width.result # "none"
            => got.get_width = [result |-> "ok", value |-> dump_input.width]
    /\ got.get_height.result # "none"
            => got.get_height = [result |-> "ok", value |-> dump_input.height]

\* A put method has been called.
PutCalled == put.op \notin {"unused", "none"}

\* The number of components the put method stores.
Components ==
    CASE put.op \in {"put_int", "put_float", "put_bool"} -> 1
      [] put.op \in {"put_vec2i", "put_vec2f"} -> 2
      [] put.op \in {"put_vec3i", "put_vec3f"} -> 3
      [] put.op \in {"put_vec4i", "put_vec4f"} -> 4

\* The 32-bit integer the put method is to store for component i (counted
\* from 0): the integer itself, 1 or 0 for a boolean, the bits of a float.
Stored(i) ==
    CASE put.op = "put_int" -> put.value
      [] put.op = "put_float" -> put.value.bits
      [] put.op = "put_bool" -> IF put.value THEN 1 ELSE 0
      [] put.op \in {"put_vec2i", "put_vec3i", "put_vec4i"} -> put.value[i + 1]
      [] put.op \in {"put_vec2f", "put_vec3f", "put_vec4f"} -> put.value[i + 1].bits

\* The first position of the put: c + h.offset.
PutBase == put.before.current_offset + put.attribute.offset

\* The positions [c + h.offset, c + h.offset + 4N) of the put.
Footprint == PutBase .. (PutBase + 4 * Components - 1)

\* ---- C23
\* C23 (footprint of the put methods): a put method called with the
\* attribute handle h on a builder with current_offset c leaves every byte
\* of the buffer outside [c + h.offset, c + h.offset + 4N) as it was (N = 1
\* for put_int, put_float and put_bool, N for put_vecN), the length of the
\* buffer and current_offset too; and when it returns, the four bytes at
\* c + h.offset + 4i are those of component i, for put_bool those of the
\* 32-bit integer 1 for true and 0 for false.
C23_PutFootprint ==
    PutCalled =>
        /\ Len(vertex_store_builder.raw_buffer) = Len(put.before.raw_buffer)
        /\ vertex_store_builder.current_offset = put.before.current_offset
        /\ \A p \in 0 .. (Len(vertex_store_builder.raw_buffer) - 1) :
                p \notin Footprint
                    => vertex_store_builder.raw_buffer[p + 1] = put.before.raw_buffer[p + 1]
        /\ ~vertex_store_builder.panicked =>
                \A i \in 0 .. (Components - 1) :
                    from_ne_bytes([k \in 1 .. 4 |->
                        vertex_store_builder.raw_buffer[PutBase + 4 * i + k]]) = Stored(i)

\* put_vec3f returned on a buffer with a different byte at every position,
\* with a current_offset and an attribute offset other than 0 and bytes of
\* the buffer before and after the twelve it wrote.
C23_Witness ==
    /\ put.op = "put_vec3f"
    /\ ~vertex_store_builder.panicked
    /\ put.before.current_offset > 0
    /\ put.attribute.offset > 0
    /\ put.before.raw_buffer[1] # put.before.raw_buffer[2]
    /\ PutBase + 12 < Len(vertex_store_builder.raw_buffer)
    /\ put.value[1] # put.value[2]

\* The greatest number of a finite non-empty set of numbers.
Max(S) == CHOOSE x \in S : \A y \in S : x >= y

\* The sketch the last add_render_task call appended (read in a state
\* whose last call it is).
LastSketch == drawing_nodes[call.self][Len(drawing_nodes[call.self])]

C25_CommitAndFrame ==
    [][IsAddRenderTask =>
        LET m == LastSketch'.moment
            task == call'.task
        IN /\ \A h \in BoundHandles(task.inputs) :
                /\ handles'[h].last_read_moment = m
                /\ handles'[h].last_write_moment = handles[h].last_write_moment
           /\ \A h \in BoundHandles(task.outputs) \cup {task.depth_stencil_grid} :
                /\ handles'[h].last_write_moment = m
                /\ handles'[h].last_read_moment = m
           /\ DOMAIN handles' = DOMAIN handles
           /\ \A h \in DOMAIN handles : handles'[h].grid_id = handles[h].grid_id
           /\ \A h \in DOMAIN handles \ TaskHandles(task) : handles'[h] = handles[h]
           /\ used_grids' = used_grids]_vars

\* A task that reads a grid written before was given moment 2, and a handle
\* it does not bind had been written before.
C25_Witness ==
    /\ call.op = "add_render_task"
    /\ call.task.inputs # <<>>
    /\ LastSketch.moment = 2
    /\ \E h \in DOMAIN handles \ TaskHandles(call.task) :
            handles[h].last_write_moment >= 1

\* ---- C26
\* C26 (registration): a call add_grid_node(grid, p) that returns leaves a
\* handle of the builder for the grid, with the grid's id, last_write_moment
\* 0 and last_read_moment 0, and an entry for the grid with
\* preserve_initial_content p and preserve_final_content false; and a task
\* all of whose handles are as add_grid_node returned them gets moment 1.
C26_RegistrationInitialState ==
    [][/\ (call'.op = "add_grid_node" /\ call'.result = "ok") =>
            /\ <<call'.self, call'.grid>> \in DOMAIN handles' \ DOMAIN handles
            /\ handles'[<<call'.self, call'.grid>>].grid_id = call'.grid
            /\ handles'[<<call'.self, call'.grid>>].last_write_moment = 0
            /\ handles'[<<call'.self, call'.grid>>].last_read_moment = 0
            /\ used_grids'[call'.self][call'.grid].preserve_initial_content
                    = call'.preserve_content
            /\ used_grids'[call'.self][call'.grid].preserve_final_content = FALSE
       /\ (IsAddRenderTask
            /\ \A h \in TaskHandles(call'.task) :
                    handles[h].last_write_moment = 0 /\ handles[h].last_read_moment = 0)
            => LastSketch'.moment = 1]_vars

\* A builder that had a sketch was given a task on a depth/stencil grid
\* that no sketch had named, registered with preserve_content true, and the
\* task got moment 1.
C26_Witness ==
    /\ call.op = "add_render_task"
    /\ Len(drawing_nodes[call.self]) = 2
    /\ LastSketch.moment = 1
    /\ SketchGrids(LastSketch) \cap SketchGrids(drawing_nodes[call.self][1]) = {}
    /\ call.task.depth_stencil_grid[1] = call.self
    /\ used_grids[call.self][LastSketch.depth_stencil_grid].preserve_initial_content

\* The moments of the sketches of a builder.
Moments(b) == {drawing_nodes[b][k].moment : k \in 1 .. Len(drawing_nodes[b])}

\* ---- C27
\* C27 (dense moments): in every reachable state the moments of the sketches
\* of a builder are exactly 1 .. M for some M >= 0, and the k-th sketch
\* (counted from 1) has a moment of at most k.
C27_DenseMoments ==
    \A b \in Builders :
        /\ \E M \in 0 .. Len(drawing_nodes[b]) : Moments(b) = 1 .. M
        /\ \A k \in 1 .. Len(drawing_nodes[b]) : drawing_nodes[b][k].moment <= k

\* The moments of the sketches, of any builder, that name the grid.
MomentsOfGrid(grid) ==
    UNION {{drawing_nodes[b][k].moment :
                k \in {i \in 1 .. Len(drawing_nodes[b]) :
                            grid \in SketchGrids(drawing_nodes[b][i])}} :
            b \in Builders}

\* ---- C28
\* C28 (hazard state of a handle): in every reachable state every grid
\* handle has last_read_moment >= last_write_moment, and each of the two is
\* 0 or the moment of a sketch, emitted before, that names the handle's grid.
C28_HandleMoments ==
    \A h \in DOMAIN handles :
        /\ handles[h].last_read_moment >= handles[h].last_write_moment
        /\ handles[h].last_read_moment \in {0} \cup MomentsOfGrid(handles[h].grid_id)
        /\ handles[h].last_write_moment \in {0} \cup MomentsOfGrid(handles[h].grid_id)

\* A handle was written at moment 1 and read at moment 2.
C28_Witness ==
    \E h \in DOMAIN handles :
        /\ handles[h].last_write_moment = 1
        /\ handles[h].last_read_moment = 2

\* The sequences with the elements of seq in every order.
Reorderings(seq) ==
    {[i \in 1 .. Len(seq) |-> seq[p[i]]] : p \in Permutations(1 .. Len(seq))}

\* ---- C29
\* C29 (binding order): when add_render_task is called with a task, the
\* moment it gives and the hazard state of all handles it leaves are those
\* of the same call with the task's input bindings in any other order and
\* its output bindings in any other order (an input handle may be bound
\* more than once).
C29_BindingOrderIndependent ==
    [][IsAddRenderTask =>
        \A inputs \in Reorderings(call'.task.inputs) :
            \A outputs \in Reorderings(call'.task.outputs) :
                LET task == [call'.task EXCEPT !.inputs = inputs, !.outputs = outputs]
                IN /\ TaskMoment(task) = LastSketch'.moment
                   /\ CommitTask(handles, task, TaskMoment(task)) = handles'
      ]_vars

\* A third task was added with two inputs whose grids were last written at
\* different moments.
C29_Witness ==
    /\ call.op = "add_render_task"
    /\ Len(drawing_nodes[call.self]) = 3
    /\ Len(call.task.inputs) = 2
    /\ handles[call.task.inputs[1].grid].last_write_moment
            < handles[call.task.inputs[2].grid].last_write_moment

\* ---- C30
\* C30 (failed duplicate registration): a call add_grid_node(grid, p2) that
\* panics because the builder has an entry for the grid leaves the builder
\* as it was: the entry of the grid keeps its preserve_initial_content and
\* its preserve_final_content, the other entries, the sketches and the
\* handles are unchanged.
C30_FailedDuplicateLeavesBuilder ==
    [][(call'.op = "add_grid_node" /\ call'.result = "panic: duplicate grid node")
        => /\ used_grids'[call'.self][call'.grid].preserve_initial_content
                = used_grids[call'.self][call'.grid].preserve_initial_content
           /\ used_grids'[call'.self][call'.grid].preserve_final_content
                = used_grids[call'.self][call'.grid].preserve_final_content
           /\ used_grids' = used_grids
           /\ drawing_nodes' = drawing_nodes
           /\ handles' = handles]_vars

====
